---------------------------- MODULE Spec2Model ----------------------------
(***************************************************************************)
(* WebCell: Component attribute/property synchronisation                   *)
(* (source/component/Component.js) and the iteration helpers multipleMap   *)
(* and mapTree (source/utility/object.js).                                 *)
(***************************************************************************)
EXTENDS Integers, Sequences, FiniteSets, TLC

(***************************************************************************)
(* Bounds of the model.                                                    *)
(***************************************************************************)
MaxCalls == 2

MaxAttrs == 2

(***************************************************************************)
(* State.  Component: the accessors linkDataOf has put on the prototype,   *)
(* the own properties of one instance, view.data, the calls of view.commit *)
(* made by the last attributeChangedCallback, that call and its result.    *)
(* multipleMap: the arguments, the returned array, the calls of the filter *)
(* and what they returned.  mapTree: the module variable depth, the        *)
(* generators and the record each yielded last.                            *)
(***************************************************************************)
VARIABLES accessors, own, data, commits, call, calls,
          mmList, mmFilter, mmResult, mmCalls, mmReturned, mmPc,
          depth, gens, yielded, starts

compVars == <<accessors, own, data, commits, call, calls>>

mmVars == <<mmList, mmFilter, mmResult, mmCalls, mmReturned, mmPc>>

treeVars == <<depth, gens, yielded, starts>>

vars == <<compVars, mmVars, treeVars>>

(***************************************************************************)
(* JavaScript values, tagged with their type so that values of different   *)
(* types can be compared.                                                  *)
(***************************************************************************)
Undefined == [type |-> "undefined", val |-> "undefined"]

Null == [type |-> "null", val |-> "null"]

True == [type |-> "boolean", val |-> "true"]

False == [type |-> "boolean", val |-> "false"]

Str(s) == [type |-> "string", val |-> s]

Num(s) == [type |-> "number", val |-> s]

Threw == [type |-> "throw", val |-> "Error"]

(***************************************************************************)
(* Component.js                                                            *)
(***************************************************************************)

\* Own properties of the object literal attr_prop.
attr_prop == [class |-> "className", for |-> "htmlFor", readonly |-> "readOnly"]

\* Members every plain object inherits from Object.prototype, with the
\* property key a use of the member as a computed key coerces it to.
ObjectPrototype ==
    [constructor |-> "function Object() { [native code] }",
     toString |-> "function toString() { [native code] }"]

\* Members of Component.prototype: data properties (methods) and the
\* accessor "view", which has a getter and no setter.
ComponentMethods == {"buildDOM", "attributeChangedCallback", "on", "trigger"}

ComponentGetters == {"view"}

\* key = attr_prop[name] || name, as a property key.  The lookup
\* attr_prop[name] follows the prototype chain of the object literal.
PropKey(name) ==
    IF name \in DOMAIN attr_prop THEN attr_prop[name]
    ELSE IF name \in DOMAIN ObjectPrototype THEN ObjectPrototype[name]
    ELSE name

\* Attribute names the callbacks are driven with.
AttrNames == {"class", "for", "readonly", "title", "constructor", "view"}

Keys == {PropKey(n) : n \in AttrNames}

\* Attribute values: null (attribute removed) or a string.
NewValues == {Null, Str(""), Str("1"), Str("abc")}

OldValues == {Null, Str("0")}

\* parse() of utility/resource: the value of a literal, or an exception.
parseThrows(raw) == raw.val \notin {"1", "true", "false"}

parse(raw) ==
    CASE raw.val = "1" -> Num("1")
      [] raw.val = "true" -> True
      [] raw.val = "false" -> False

\* key in this.prototype
InPrototype(acc, key) ==
    \/ key \in acc
    \/ key \in ComponentMethods \cup ComponentGetters
    \/ key \in DOMAIN ObjectPrototype

\* The body of the for loop of linkDataOf for one attribute.
linkOne(acc, attribute) ==
    LET key == PropKey(attribute)
    IN  IF ~InPrototype(acc, key) THEN acc \cup {key} ELSE acc

RECURSIVE linkAll(_, _)
linkAll(acc, attributes) ==
    IF attributes = <<>> THEN acc
    ELSE linkAll(linkOne(acc, Head(attributes)), Tail(attributes))

AttrLists == UNION {[1..n -> AttrNames] : n \in 0..MaxAttrs}

\* view.commit(key, value): stores the value in view.data, or throws.
viewCommit(st, key, value, throws) ==
    [st EXCEPT !.log = Append(@, <<key, value>>),
               !.data = IF throws THEN @ ELSE [@ EXCEPT ![key] = value],
               !.ok = ~throws]

\* this[key] = value in strict mode: an own property is written, the
\* setter registered by linkDataOf is called, a getter-only accessor throws
\* a TypeError, anything else creates an own property.
Assign(st, acc, key, value, throws) ==
    IF st.own[key] # Undefined THEN [st EXCEPT !.own[key] = value, !.ok = TRUE]
    ELSE IF key \in acc THEN viewCommit(st, key, value, throws)
    ELSE IF key \in ComponentGetters THEN [st EXCEPT !.ok = FALSE]
    ELSE [st EXCEPT !.own[key] = value, !.ok = TRUE]

\* this[key]
Get(o, d, acc, key) ==
    IF o[key] # Undefined THEN o[key]
    ELSE IF key \in acc THEN d[key]
    ELSE IF key \in ComponentMethods THEN [type |-> "function", val |-> key]
    ELSE IF key \in ComponentGetters THEN [type |-> "object", val |-> "View"]
    ELSE Undefined

\* The statement `return this[name] = value`.
ReturnAssign(st, acc, key, value, throws) ==
    LET r == Assign(st, acc, key, value, throws)
    IN  [r EXCEPT !.ret = IF r.ok THEN value ELSE Threw]

\* attributeChangedCallback(name, oldValue, newValue); t1 and t2 tell
\* whether the first and the second call of view.commit throw.
attributeChangedCallback(st, acc, name, oldValue, newValue, t1, t2) ==
    LET key == PropKey(name)
    IN  CASE newValue = Str("") -> ReturnAssign(st, acc, key, True, t1)
          [] newValue = Null -> ReturnAssign(st, acc, key, False, t1)
          [] OTHER ->
               IF parseThrows(newValue)
               THEN ReturnAssign(st, acc, key, newValue, t1)
               ELSE LET r == ReturnAssign(st, acc, key, parse(newValue), t1)
                    IN  IF r.ok THEN r
                        ELSE ReturnAssign(r, acc, key, newValue, t2)

NoCall == [name |-> "", key |-> "", oldValue |-> Null, newValue |-> Null,
           ret |-> Undefined, linked |-> FALSE]

LinkDataOf ==
    \E attributes \in AttrLists :
        /\ accessors' = linkAll(accessors, attributes)
        /\ accessors' # accessors
        /\ UNCHANGED <<own, data, commits, call, calls>>
        /\ UNCHANGED <<mmVars, treeVars>>

AttributeChanged ==
    \E name \in AttrNames, oldValue \in OldValues, newValue \in NewValues,
       t1 \in BOOLEAN, t2 \in BOOLEAN :
        /\ calls < MaxCalls
        /\ LET st == [own |-> own, data |-> data, log |-> <<>>,
                      ok |-> TRUE, ret |-> Undefined]
               r == attributeChangedCallback(st, accessors, name, oldValue,
                                             newValue, t1, t2)
           IN  /\ own' = r.own
               /\ data' = r.data
               /\ commits' = r.log
               /\ call' = [name |-> name, key |-> PropKey(name),
                           oldValue |-> oldValue, newValue |-> newValue,
                           ret |-> r.ret,
                           linked |-> (PropKey(name) \in accessors
                                       /\ own[PropKey(name)] = Undefined)]
        /\ calls' = calls + 1
        /\ UNCHANGED accessors
        /\ UNCHANGED <<mmVars, treeVars>>

CompNext == LinkDataOf \/ AttributeChanged

(***************************************************************************)
(* utility/object.js: multipleMap                                          *)
(***************************************************************************)
Arr(s) == [type |-> "array", val |-> s]

\* item instanceof Array
IsArray(item) == item.type = "array"

\* Items a list holds and a filter returns: null, undefined, scalars, and
\* arrays that are empty, hold a null, or hold a nested array.
Items ==
    {Null, Undefined, Num("1"), Str("a"),
     Arr(<<>>), Arr(<<Num("2"), Null>>), Arr(<<Arr(<<Num("3")>>)>>)}

\* The filter argument: not a function, or one of these callbacks.
Filters == {"none", "identity", "index", "wrap", "drop"}

\* filter instanceof Function
IsFunction(filter) == filter # "none"

\* filter(item, i, list) for the callbacks of Filters.
ApplyFilter(filter, item, i, list) ==
    CASE filter = "identity" -> item
      [] filter = "index" -> Num(ToString(i))
      [] filter = "wrap" -> Arr(<<item>>)
      [] filter = "drop" -> Undefined

\* toIterable(arrayLike): installs the Array iterator when the object has
\* no iterator of its own.
toIterable(arrayLike) ==
    IF ~arrayLike.iterator THEN [arrayLike EXCEPT !.iterator = TRUE]
    ELSE arrayLike

\* push with the method fixed to 'call': an Array is pushed as one element.
pushCall(result, item) == Append(result, item)

\* result.push[(item instanceof Array) ? 'apply' : 'call'](result, item)
push(result, item) ==
    IF IsArray(item) THEN result \o item.val ELSE Append(result, item)

\* The for-of loop of multipleMap from position pos on.  The counter i is
\* initialised to 0 and the loop body never changes it.
RECURSIVE mmLoop(_, _, _, _, _)
mmLoop(list, filter, pos, i, acc) ==
    IF pos > Len(list.items) THEN acc
    ELSE LET item0 == list.items[pos]
             item == IF IsFunction(filter)
                     THEN ApplyFilter(filter, item0, i, list)
                     ELSE item0
             calls1 == IF IsFunction(filter)
                       THEN Append(acc.calls, <<item0, i>>)
                       ELSE acc.calls
             result1 == IF item \notin {Null, Undefined}
                        THEN push(acc.result, item)
                        ELSE acc.result
         IN  mmLoop(list, filter, pos + 1, i,
                    [result |-> result1, calls |-> calls1,
                     returned |-> Append(acc.returned, item)])

multipleMap(list, filter) ==
    LET l == toIterable(list)
        r == mmLoop(l, filter, 1, 0,
                    [result |-> <<>>, calls |-> <<>>, returned |-> <<>>])
    IN  [list |-> l, result |-> r.result, calls |-> r.calls,
         returned |-> r.returned]

MaxLen == 3

ItemLists == UNION {[1..n -> Items] : n \in 0..MaxLen}

MultipleMap ==
    /\ mmPc = "ready"
    /\ LET r == multipleMap(mmList, mmFilter)
       IN  /\ mmList' = r.list
           /\ mmResult' = r.result
           /\ mmCalls' = r.calls
           /\ mmReturned' = r.returned
    /\ mmPc' = "done"
    /\ UNCHANGED mmFilter
    /\ UNCHANGED <<compVars, treeVars>>

MMNext == MultipleMap



(***************************************************************************)
(* utility/object.js: mapTree                                              *)
(***************************************************************************)
MaxStarts == 3

Trav == {1, 2}

\* Object trees, given by the paths of their nodes (a path lists the
\* 1-based positions from the root down) and the paths holding null.
Trees ==
    {[nodes |-> {<<>>, <<1>>, <<2>>, <<1, 1>>}, nulls |-> {}],
     [nodes |-> {<<>>, <<1>>, <<2>>, <<2, 1>>}, nulls |-> {<<1>>}],
     [nodes |-> {<<>>, <<1>>, <<1, 1>>, <<1, 2>>}, nulls |-> {<<1, 1>>}]}

\* node[fork_key].length
NChildren(tree, p) ==
    Cardinality({q \in tree.nodes :
                    Len(q) = Len(p) + 1 /\ SubSeq(q, 1, Len(p)) = p})

\* (children[i] != null) && (children[i][fork_key] || '')[0]
HasFork(tree, c) ==
    /\ c \notin tree.nulls
    /\ NChildren(tree, c) > 0
    /\ Append(c, 1) \notin tree.nulls

NoYield == [parent |-> <<>>, node |-> <<>>, index |-> -1, depth |-> 0]

\* The head of the for loop in the innermost active call of mapTree:
\* yield the next child, or leave the loop, decrement depth and return to
\* the caller's loop.  d is the module variable depth.
RECURSIVE forLoop(_, _, _)
forLoop(tree, stack, d) ==
    LET top == stack[Len(stack)]
    IN  IF top.i < NChildren(tree, top.node)
        THEN [stack |-> stack, depth |-> d, done |-> FALSE,
              out |-> [parent |-> top.node,
                       node |-> Append(top.node, top.i + 1),
                       index |-> top.i, depth |-> d]]
        ELSE IF Len(stack) = 1
             THEN [stack |-> <<>>, depth |-> d - 1, done |-> TRUE,
                   out |-> NoYield]
             ELSE LET rest == SubSeq(stack, 1, Len(stack) - 1)
                      caller == rest[Len(rest)]
                  IN  forLoop(tree,
                              [rest EXCEPT ![Len(rest)].i = caller.i + 1],
                              d - 1)

\* Entry of a call mapTree(node, fork_key): depth++ and the first test of
\* the loop.
enter(tree, stack, node, d) ==
    forLoop(tree, Append(stack, [node |-> node, i |-> 0]), d + 1)

\* One call of next() on the generator: runs it to its next yield or to
\* its end.
resume(gen, d) ==
    IF gen.status = "suspendedStart"
    THEN enter(gen.tree, <<>>, <<>>, d)
    ELSE LET top == gen.stack[Len(gen.stack)]
             child == Append(top.node, top.i + 1)
         IN  IF HasFork(gen.tree, child)
             THEN enter(gen.tree, gen.stack, child, d)
             ELSE forLoop(gen.tree,
                          [gen.stack EXCEPT ![Len(gen.stack)].i = top.i + 1],
                          d)

NoTree == [nodes |-> {}, nulls |-> {}]

NoGen == [tree |-> NoTree, stack |-> <<>>, status |-> "none"]

\* mapTree(root, fork_key) is called: a suspended generator is created.
StartTraversal ==
    \E t \in Trav, tree \in Trees :
        /\ gens[t].status \in {"none", "completed", "abandoned"}
        /\ starts < MaxStarts
        /\ gens' = [gens EXCEPT ![t] = [tree |-> tree, stack |-> <<>>,
                                        status |-> "suspendedStart"]]
        /\ yielded' = [yielded EXCEPT ![t] = NoYield]
        /\ starts' = starts + 1
        /\ UNCHANGED depth
        /\ UNCHANGED <<compVars, mmVars>>

\* The consumer of traversal t asks for the next record.
NextRecord ==
    \E t \in Trav :
        /\ gens[t].status \in {"suspendedStart", "suspendedYield"}
        /\ LET r == resume(gens[t], depth)
           IN  /\ depth' = r.depth
               /\ gens' = [gens EXCEPT ![t].stack = r.stack,
                                       ![t].status = IF r.done
                                                     THEN "completed"
                                                     ELSE "suspendedYield"]
               /\ yielded' = [yielded EXCEPT ![t] = r.out]
        /\ UNCHANGED starts
        /\ UNCHANGED <<compVars, mmVars>>

\* The consumer of traversal t stops iterating before the end.
Abandon ==
    \E t \in Trav :
        /\ gens[t].status = "suspendedYield"
        /\ gens' = [gens EXCEPT ![t].status = "abandoned"]
        /\ UNCHANGED <<depth, yielded, starts>>
        /\ UNCHANGED <<compVars, mmVars>>

TreeNext == StartTraversal \/ NextRecord \/ Abandon

(***************************************************************************)
(* Specifications                                                          *)
(***************************************************************************)
\* A class derived from Component with no accessor linked yet and one
\* instance of it with no own property; no call of multipleMap or mapTree.
CompInit ==
    /\ accessors = {}
    /\ own = [k \in Keys |-> Undefined]
    /\ data = [k \in Keys |-> Undefined]
    /\ commits = <<>>
    /\ call = NoCall
    /\ calls = 0
    /\ mmList = [iterator |-> TRUE, items |-> <<>>]
    /\ mmFilter = "none"
    /\ mmResult = <<>>
    /\ mmCalls = <<>>
    /\ mmReturned = <<>>
    /\ mmPc = "done"
    /\ depth = 0
    /\ gens = [t \in Trav |-> NoGen]
    /\ yielded = [t \in Trav |-> NoYield]
    /\ starts = 0

SpecComponent == CompInit /\ [][CompNext]_vars

\* The arguments of one call of multipleMap: an array or an array-like
\* object without an iterator, and a filter.
MMInit ==
    /\ mmList \in [iterator : BOOLEAN, items : ItemLists]
    /\ mmFilter \in Filters
    /\ mmResult = <<>>
    /\ mmCalls = <<>>
    /\ mmReturned = <<>>
    /\ mmPc = "ready"
    /\ accessors = {}
    /\ own = [k \in Keys |-> Undefined]
    /\ data = [k \in Keys |-> Undefined]
    /\ commits = <<>>
    /\ call = NoCall
    /\ calls = 0
    /\ depth = 0
    /\ gens = [t \in Trav |-> NoGen]
    /\ yielded = [t \in Trav |-> NoYield]
    /\ starts = 0

SpecMultipleMap == MMInit /\ [][MMNext]_vars

\* The module is loaded (depth = 0) and no traversal exists.
TreeInit ==
    /\ depth = 0
    /\ gens = [t \in Trav |-> NoGen]
    /\ yielded = [t \in Trav |-> NoYield]
    /\ starts = 0
    /\ accessors = {}
    /\ own = [k \in Keys |-> Undefined]
    /\ data = [k \in Keys |-> Undefined]
    /\ commits = <<>>
    /\ call = NoCall
    /\ calls = 0
    /\ mmList = [iterator |-> TRUE, items |-> <<>>]
    /\ mmFilter = "none"
    /\ mmResult = <<>>
    /\ mmCalls = <<>>
    /\ mmReturned = <<>>
    /\ mmPc = "done"

SpecMapTree == TreeInit /\ [][TreeNext]_vars

(***************************************************************************)
(* Properties                                                              *)
(***************************************************************************)
\* The property name the documentation of attributeChangedCallback gives
\* for an attribute: the three renamed attributes, and the name itself.
DomPropertyOf(name) ==
    CASE name = "class" -> "className"
      [] name = "for" -> "htmlFor"
      [] name = "readonly" -> "readOnly"
      [] OTHER -> name

\* The DOM property value of an attribute value.
Converted(newValue) ==
    CASE newValue = Str("") -> True
      [] newValue = Null -> False
      [] OTHER -> IF parseThrows(newValue) THEN newValue ELSE parse(newValue)

\* C1: attributeChangedCallback(name, oldValue, newValue) assigns to the
\* property className, htmlFor or readOnly for the names class, for and
\* readonly and to the property called name for every other name, and the
\* value it assigns and returns is true for the empty string, false for
\* null and parse(newValue) for a string that parse accepts, whatever
\* oldValue is.
C1_AssignsConvertedValueToProperty ==
    (calls > 0 /\ (call.newValue \in {Null, Str("")}
                   \/ ~parseThrows(call.newValue)))
        => /\ call.key = DomPropertyOf(call.name)
           /\ call.ret = Converted(call.newValue)

\* C2: once linkDataOf has registered the accessor of an attribute, a
\* change of the attribute reaches the view by exactly one call
\* view.commit(k, v) with v the converted new value, and reading the
\* property gives view.data[k], also when view.commit or parse throws.
C2_ExactlyOneCommit ==
    call.linked
        => /\ Len(commits) = 1
           /\ commits[1] = <<call.key, Converted(call.newValue)>>
           /\ Get(own, data, accessors, call.key) = data[call.key]

\* What one filter result contributes to the array multipleMap returns.
Contribution(x) ==
    IF x \in {Null, Undefined} THEN <<>>
    ELSE IF IsArray(x) THEN x.val
    ELSE <<x>>

RECURSIVE Concatenation(_)
Concatenation(results) ==
    IF results = <<>> THEN <<>>
    ELSE Contribution(Head(results)) \o Concatenation(Tail(results))

\* C3: multipleMap(list, filter) returns the in-order concatenation, over
\* the items of the list, of nothing for a filter result that is null or
\* undefined, the elements of a result that is an Array (one level only),
\* and the result itself otherwise; without a filter function the item is
\* its own result.
C3_ResultIsConcatenation ==
    mmPc = "done"
        => /\ Len(mmReturned) = Len(mmList.items)
           /\ \A k \in 1..Len(mmReturned) :
                 mmReturned[k] =
                     IF IsFunction(mmFilter)
                     THEN ApplyFilter(mmFilter, mmList.items[k],
                                      mmCalls[k][2], mmList)
                     ELSE mmList.items[k]
           /\ mmResult = Concatenation(mmReturned)

\* A list with a nested array, a null and a scalar has gone through
\* multipleMap with a filter function: the array is flattened one level,
\* the null is left out, the scalar is kept.
C3_Witness ==
    /\ mmPc = "done"
    /\ mmFilter = "identity"
    /\ mmList.items = <<Arr(<<Arr(<<Num("3")>>)>>), Null, Num("1")>>
    /\ mmResult = <<Arr(<<Num("3")>>), Num("1")>>

\* C4: multipleMap calls the filter once per item, in order, with the
\* item and the zero-based position of the item.
C4_FilterGetsPosition ==
    (mmPc = "done" /\ IsFunction(mmFilter))
        => /\ Len(mmCalls) = Len(mmList.items)
           /\ \A k \in 1..Len(mmCalls) :
                 mmCalls[k] = <<mmList.items[k], k - 1>>

\* C5: every record a mapTree traversal yields carries as depth the level
\* of the yielded node below the root, also when traversals interleave or
\* follow an abandoned traversal.
C5_DepthIsLevel ==
    \A t \in Trav :
        yielded[t] # NoYield => yielded[t].depth = Len(yielded[t].node)

=============================================================================
